---- MODULE Spec2Model ----
(***************************************************************************)
(* The mlab data-source adapters of enthought/mayavi/tools/sources.py:     *)
(* MGlyphSource, MArraySource, MLineSource, MArray2DSource and             *)
(* MGridSource, each created once from its input arrays and then patched   *)
(* in place by its trait change handlers; and the functions that process   *)
(* the positional arguments and construct the adapters.                    *)
(*                                                                         *)
(* An array is a record [dtype, shape, data]: data is the array in         *)
(* flattened (row-major) order, shape its numpy shape.  A number is held   *)
(* as an integer multiple of 1/Scale, so that an integer-typed array holds *)
(* multiples of Scale only and a cast to integer drops the fraction.       *)
(***************************************************************************)
EXTENDS Integers, Sequences, FiniteSets, TLC

VARIABLES x, y, z, points, scalars, u, v, w, vectors, mask,
          dataset, m_data, raised, pc, op, nupd, args, fn

vars == <<x, y, z, points, scalars, u, v, w, vectors, mask,
          dataset, m_data, raised, pc, op, nupd, args, fn>>

(***************************************************************************)
(* Bounds of the model.                                                    *)
(***************************************************************************)
\* numbers are multiples of 1/Scale: the halves of numpy.mgrid[-nx/2.:nx/2]
Scale == 2
\* numpy.nan, which only a float element can hold
NaN == -1
\* longest coordinate array drawn as an input
MaxLen == 2
\* attribute assignments made after the source is attached
MaxUpdates == 2
\* largest extent of a 2-D scalar array or surface grid along one axis
MaxSide == 3

(***************************************************************************)
(* numpy                                                                   *)
(***************************************************************************)
None == [dtype |-> "none", shape |-> <<>>, data |-> <<>>]

IsNone(a) == a.dtype = "none"

DTypes == {"int", "float"}

RECURSIVE Prod(_)
Prod(s) == IF s = <<>> THEN 1 ELSE Head(s) * Prod(Tail(s))

\* len(a): the extent of the first axis
len(a) == a.shape[1]

\* a.size
size(a) == Len(a.data)

\* a.ravel()
ravel(a) == [a EXCEPT !.shape = <<Len(a.data)>>]

\* the element type numpy gives an array built from several arrays
promote(ds) == IF "float" \in ds THEN "float" ELSE "int"

\* the value an element of type d takes when val is stored into it
Cast(val, d) == IF d = "int" THEN (val \div Scale) * Scale ELSE val

\* numpy.c_[a, b, c] of three 1-D arrays is defined when their lengths agree
c_ok(a, b, c) == size(a) = size(b) /\ size(b) = size(c)

\* c_ with the second and third array taking each other's column
c_swapped(a, b, c, rows) ==
    LET d == promote({a.dtype, b.dtype, c.dtype})
        n == size(a)
    IN  [dtype |-> d,
         shape |-> <<rows, 3>>,
         data  |-> [i \in 1..(3 * n) |->
                      LET r == ((i - 1) \div 3) + 1
                          k == (i - 1) % 3
                      IN  Cast(IF k = 0 THEN a.data[r]
                               ELSE IF k = 1 THEN c.data[r] ELSE b.data[r], d)]]

\* numpy.c_[a.ravel(), b.ravel(), c.ravel()].ravel(), reshaped to rows of 3
c_(a, b, c, rows) ==
    LET d == promote({a.dtype, b.dtype, c.dtype})
        n == size(a)
    IN  [dtype |-> d,
         shape |-> <<rows, 3>>,
         data  |-> [i \in 1..(3 * n) |->
                      LET r == ((i - 1) \div 3) + 1
                          k == (i - 1) % 3
                      IN  Cast(IF k = 0 THEN a.data[r]
                               ELSE IF k = 1 THEN b.data[r] ELSE c.data[r], d)]]

\* p[:, k] as a sequence
Column(p, k) == [r \in 1..len(p) |-> p.data[3 * (r - 1) + k + 1]]

RECURSIVE StripOnes(_)
StripOnes(s) == IF s # <<>> /\ Head(s) = 1 THEN StripOnes(Tail(s)) ELSE s

\* whether numpy can broadcast the value a into a column of n rows
Broadcasts(a, n) ==
    /\ ~IsNone(a)
    /\ \/ Prod(a.shape) = 1
       \/ StripOnes(a.shape) = <<n>>

\* SetColumn writing the column after k
SetColumn_nextaxis(p, k, a) ==
    [p EXCEPT !.data = [i \in 1..Len(p.data) |->
        IF (i - 1) % 3 = (k + 1) % 3
        THEN Cast(IF size(a) = 1 THEN a.data[1]
                  ELSE a.data[((i - 1) \div 3) + 1], p.dtype)
        ELSE p.data[i]]]

\* p[:, k] = a
SetColumn(p, k, a) ==
    [p EXCEPT !.data = [i \in 1..Len(p.data) |->
        IF (i - 1) % 3 = k
        THEN Cast(IF size(a) = 1 THEN a.data[1]
                  ELSE a.data[((i - 1) \div 3) + 1], p.dtype)
        ELSE p.data[i]]]

\* numpy.indices(s)[axis - 1]: each element holds its own index along axis
indices(s, axis) ==
    [dtype |-> "int", shape |-> s,
     data  |-> [k \in 1..Prod(s) |->
                 Scale * (((k - 1) \div Prod(SubSeq(s, axis + 1, Len(s))))
                          % s[axis])]]

(***************************************************************************)
(* Input arrays.                                                           *)
(***************************************************************************)
Unit(d) == IF d = "int" THEN Scale ELSE 1

\* the array of shape s and type d holding base, base+1, ... in units of d
Ramp(s, d, base) ==
    [dtype |-> d, shape |-> s,
     data  |-> [k \in 1..Prod(s) |-> Unit(d) * (base + k - 1)]]

Shapes1D == {<<n>> : n \in 1..MaxLen}

Shapes2D == {<<a, b>> : a \in 1..MaxLen, b \in 1..MaxLen}

Shapes3D == {<<a, b, c>> : a \in 1..MaxLen, b \in 1..MaxLen, c \in 1..MaxLen}

\* the shapes of up to MaxLen elements, of one, two and three dimensions
Shapes == Shapes1D \cup {s \in Shapes2D \cup Shapes3D : Prod(s) <= MaxLen}

\* an (n, 3) array of combined points or vectors
Rows3(n, d, base) == Ramp(<<n, 3>>, d, base)

(***************************************************************************)
(* tvtk.PolyData and the pipeline source.                                  *)
(***************************************************************************)
\* a point-data attribute of the dataset: whether it is set, and its tuples
Absent == [present |-> FALSE, tuples |-> 0]

Attr(a) == IF IsNone(a) THEN Absent ELSE [present |-> TRUE, tuples |-> len(a)]

NoDataset == [assigned |-> FALSE, n_points |-> 0, polys |-> <<>>,
              lines |-> <<>>, scalars |-> Absent, vectors |-> Absent,
              modified |-> 0]

NoSource == [attached |-> FALSE, data_changed |-> 0, mlab_source |-> FALSE]

\* MlabSource._m_data_changed with the back reference left unset
m_data_changed_unset(ds) == ds

\* MlabSource._m_data_changed: ds.mlab_source = self
m_data_changed(ds) == [ds EXCEPT !.mlab_source = TRUE]

\* MlabSource.update
update(ds) == [ds EXCEPT !.modified = @ + 1]

data_changed(md) == [md EXCEPT !.data_changed = @ + 1]

(***************************************************************************)
(* MGlyphSource, as vector_scatter and scalar_scatter build it.            *)
(***************************************************************************)
\* what the constructor function hands to data_source.set(...)
GlyphCoordInputs ==
    {[x |-> Ramp(s, dx, 0), y |-> Ramp(s, dy, 1), z |-> Ramp(s, dx, 2),
      points |-> p, scalars |-> None, u |-> None, v |-> None, w |-> None,
      vectors |-> None] :
        s \in Shapes, dx \in DTypes, dy \in DTypes, p \in {None}}

GlyphScalarInputs == {None} \cup {Ramp(<<m>>, "float", 0) : m \in 0..MaxLen}

GlyphVectorInputs ==
    {[u |-> None, v |-> None, w |-> None, vectors |-> None]}
    \cup {[u |-> None, v |-> None, w |-> None,
           vectors |-> Rows3(m, "float", 0)] : m \in 1..MaxLen}
    \cup {[u |-> Ramp(<<m>>, "float", 0), v |-> Ramp(<<m>>, "float", 1),
           w |-> Ramp(<<m>>, "float", 2), vectors |-> None] : m \in 1..MaxLen}

GlyphAttrInputs ==
    {[x |-> c.x, y |-> c.y, z |-> c.z, points |-> c.points, scalars |-> s,
      u |-> vi.u, v |-> vi.v, w |-> vi.w, vectors |-> vi.vectors] :
        c \in {[x |-> Ramp(<<n>>, "float", 0), y |-> Ramp(<<n>>, "float", 1),
                z |-> Ramp(<<n>>, "float", 2), points |-> None] :
                    n \in 1..MaxLen}
              \cup {[x |-> Ramp(<<1>>, "float", 0), y |-> Ramp(<<1>>, "float", 1),
                     z |-> Ramp(<<1>>, "float", 2),
                     points |-> Rows3(0, "float", 0)]}
              \cup {[x |-> None, y |-> None, z |-> None,
                     points |-> Rows3(n, "float", 0)] : n \in 1..MaxLen},
        s \in GlyphScalarInputs, vi \in GlyphVectorInputs}

GlyphSet(inputs) ==
    /\ \E in \in inputs :
         /\ x = in.x /\ y = in.y /\ z = in.z /\ points = in.points
         /\ scalars = in.scalars
         /\ u = in.u /\ v = in.v /\ w = in.w /\ vectors = in.vectors
    /\ mask = None
    /\ dataset = NoDataset
    /\ m_data = NoSource
    /\ raised = "none"
    /\ pc = "set"
    /\ op = "set"
    /\ nupd = 0
    /\ args = <<>>
    /\ fn = "MGlyphSource"

InitGlyph == GlyphSet(GlyphCoordInputs)

InitGlyphAttr == GlyphSet(GlyphAttrInputs)

\* numpy.arange(0, n, 1) reshaped to (n, 1): one cell per point
PointCells(n) == [k \in 1..n |-> <<k - 1>>]

\* LengthAsserted with the assertion left out
LengthUnchecked(pts, a) == TRUE

\* if a is not None and len(a) > 0: assert len(points) == len(a)
LengthAsserted(pts, a) == IsNone(a) \/ len(a) = 0 \/ len(pts) = len(a)

\* MGlyphSource.create
MGlyphSource_create ==
    /\ pc = "set"
    /\ op' = "create"
    /\ LET derive  == IsNone(points) \/ len(points) = 0
           noxyz   == derive /\ (IsNone(x) \/ IsNone(y) \/ IsNone(z))
           badxyz  == derive /\ ~noxyz /\ ~c_ok(x, y, z)
           pts     == IF derive /\ ~noxyz /\ ~badxyz
                      THEN c_(x, y, z, (3 * size(x)) \div 3)
                      ELSE points
           combine == (IsNone(vectors) \/ len(vectors) = 0)
                      /\ ~IsNone(u) /\ len(u) > 0
           nouvw   == combine /\ (IsNone(v) \/ IsNone(w))
           baduvw  == combine /\ ~nouvw /\ ~c_ok(u, v, w)
           vecs    == IF combine /\ ~nouvw /\ ~baduvw
                      THEN c_(u, v, w, (3 * size(u)) \div 3)
                      ELSE vectors
           vecfail == ~LengthAsserted(pts, vecs)
           scafail == ~LengthAsserted(pts, scalars)
       IN  IF noxyz \/ badxyz
           THEN /\ raised' = (IF noxyz THEN "AttributeError" ELSE "ValueError")
                /\ pc' = "failed"
                /\ UNCHANGED <<points, vectors, dataset>>
           ELSE /\ points' = pts
                /\ IF nouvw \/ baduvw
                   THEN /\ raised' = (IF nouvw THEN "AttributeError"
                                      ELSE "ValueError")
                        /\ pc' = "failed"
                        /\ UNCHANGED <<vectors, dataset>>
                   ELSE /\ vectors' = vecs
                        /\ IF vecfail \/ scafail
                           THEN /\ raised' = "AssertionError"
                                /\ pc' = "failed"
                                /\ UNCHANGED dataset
                           ELSE /\ raised' = "none"
                                /\ pc' = "created"
                                /\ dataset' =
                                     [assigned |-> TRUE,
                                      n_points |-> len(pts),
                                      polys    |-> PointCells(len(pts)),
                                      lines    |-> <<>>,
                                      scalars  |-> Attr(scalars),
                                      vectors  |-> Attr(vecs),
                                      modified |-> 0]
    /\ UNCHANGED <<x, y, z, scalars, u, v, w, mask, m_data, nupd, args, fn>>

\* tools._add_data(data_source.dataset, ...); data_source.m_data = ds
add_data ==
    /\ pc = "created"
    /\ pc' = "attached"
    /\ op' = "add_data"
    /\ m_data' = m_data_changed([attached |-> TRUE, data_changed |-> 0,
                                 mlab_source |-> FALSE])
    /\ UNCHANGED <<x, y, z, points, scalars, u, v, w, vectors, mask,
                   dataset, raised, nupd, args, fn>>

\* the arrays a caller assigns to a coordinate or a vector component
CoordUpdates == {Ramp(s, d, 3) : s \in Shapes1D, d \in DTypes}

ComponentUpdates == {Ramp(s, "float", 4) : s \in Shapes1D}

PointsUpdates == {Rows3(m, "float", 5) : m \in 1..MaxLen}

ScalarsUpdates == {Ramp(<<m>>, "float", 1) : m \in 1..MaxLen}

VectorsUpdates == {Rows3(m, "float", 7) : m \in 1..MaxLen}

\* an attribute assignment by the holder of the handle the constructor returned
Assign(name) ==
    /\ pc = "attached"
    /\ nupd < MaxUpdates
    /\ nupd' = nupd + 1
    /\ op' = name
    /\ pc' = pc
    /\ UNCHANGED <<args, fn>>

\* self.points[:, k] = a; self.update()
PatchPoints(k, a) ==
    IF Broadcasts(a, len(points))
    THEN /\ points' = SetColumn(points, k, a)
         /\ dataset' = update(dataset)
         /\ m_data' = data_changed(m_data)
         /\ raised' = "none"
    ELSE /\ raised' = "ValueError"
         /\ UNCHANGED <<points, dataset, m_data>>

\* self.vectors[:, k] = a; self.update()
PatchVectors(k, a) ==
    IF IsNone(vectors)
    THEN /\ raised' = "TypeError"
         /\ UNCHANGED <<vectors, dataset, m_data>>
    ELSE IF Broadcasts(a, len(vectors))
    THEN /\ vectors' = SetColumn(vectors, k, a)
         /\ dataset' = update(dataset)
         /\ m_data' = data_changed(m_data)
         /\ raised' = "none"
    ELSE /\ raised' = "ValueError"
         /\ UNCHANGED <<vectors, dataset, m_data>>

MGlyphSource_x_changed ==
    \E a \in CoordUpdates :
        /\ Assign("x") /\ x' = a /\ PatchPoints(0, a)
        /\ UNCHANGED <<y, z, scalars, u, v, w, vectors, mask>>

MGlyphSource_y_changed ==
    \E a \in CoordUpdates :
        /\ Assign("y") /\ y' = a /\ PatchPoints(1, a)
        /\ UNCHANGED <<x, z, scalars, u, v, w, vectors, mask>>

MGlyphSource_z_changed ==
    \E a \in CoordUpdates :
        /\ Assign("z") /\ z' = a /\ PatchPoints(2, a)
        /\ UNCHANGED <<x, y, scalars, u, v, w, vectors, mask>>

MGlyphSource_u_changed ==
    \E a \in ComponentUpdates :
        /\ Assign("u") /\ u' = a /\ PatchVectors(0, a)
        /\ UNCHANGED <<x, y, z, points, scalars, v, w, mask>>

MGlyphSource_v_changed ==
    \E a \in ComponentUpdates :
        /\ Assign("v") /\ v' = a /\ PatchVectors(1, a)
        /\ UNCHANGED <<x, y, z, points, scalars, u, w, mask>>

MGlyphSource_w_changed ==
    \E a \in ComponentUpdates :
        /\ Assign("w") /\ w' = a /\ PatchVectors(2, a)
        /\ UNCHANGED <<x, y, z, points, scalars, u, v, mask>>

MGlyphSource_points_changed ==
    \E p \in PointsUpdates :
        /\ Assign("points") /\ points' = p
        /\ dataset' = update([dataset EXCEPT !.n_points = len(p)])
        /\ m_data' = data_changed(m_data)
        /\ raised' = "none"
        /\ UNCHANGED <<x, y, z, scalars, u, v, w, vectors, mask>>

MGlyphSource_scalars_changed ==
    \E s \in ScalarsUpdates :
        /\ Assign("scalars") /\ scalars' = s
        /\ dataset' = update([dataset EXCEPT !.scalars = Attr(s)])
        /\ m_data' = data_changed(m_data)
        /\ raised' = "none"
        /\ UNCHANGED <<x, y, z, points, u, v, w, vectors, mask>>

MGlyphSource_vectors_changed ==
    \E a \in VectorsUpdates :
        /\ Assign("vectors") /\ vectors' = a
        /\ dataset' = update([dataset EXCEPT !.vectors = Attr(a)])
        /\ m_data' = data_changed(m_data)
        /\ raised' = "none"
        /\ UNCHANGED <<x, y, z, points, scalars, u, v, w, mask>>

\* a caller that moves the points
NextGlyph ==
    \/ MGlyphSource_create
    \/ add_data
    \/ MGlyphSource_x_changed
    \/ MGlyphSource_y_changed
    \/ MGlyphSource_z_changed
    \/ MGlyphSource_points_changed

SpecGlyph == InitGlyph /\ [][NextGlyph]_vars

\* a caller that replaces the points and the point attributes
NextGlyphAttr ==
    \/ MGlyphSource_create
    \/ add_data
    \/ MGlyphSource_u_changed
    \/ MGlyphSource_v_changed
    \/ MGlyphSource_w_changed
    \/ MGlyphSource_points_changed
    \/ MGlyphSource_scalars_changed
    \/ MGlyphSource_vectors_changed

SpecGlyphAttr == InitGlyphAttr /\ [][NextGlyphAttr]_vars

(***************************************************************************)
(* MLineSource, as line_source builds it.                                  *)
(***************************************************************************)
LineInputs ==
    {[x |-> Ramp(s, d, 0), y |-> Ramp(s, d, 1), z |-> Ramp(s, d, 2),
      points |-> None, scalars |-> sc] :
        s \in Shapes, d \in DTypes, sc \in {None, Ramp(<<MaxLen>>, "float", 0)}}
    \cup {[x |-> None, y |-> None, z |-> None,
           points |-> Rows3(n, "float", 0), scalars |-> None] : n \in 1..MaxLen}

InitLine ==
    /\ \E in \in LineInputs :
         /\ x = in.x /\ y = in.y /\ z = in.z /\ points = in.points
         /\ scalars = in.scalars
    /\ u = None /\ v = None /\ w = None /\ vectors = None
    /\ mask = None
    /\ dataset = NoDataset
    /\ m_data = NoSource
    /\ raised = "none"
    /\ pc = "set"
    /\ op = "set"
    /\ nupd = 0
    /\ args = <<>>
    /\ fn = "MLineSource"

\* numpy.arange(start, stop, 1, 'l') for a stop given as twiceStop / 2:
\* the integers start, start + 1, ... below the stop
arange(start, twiceStop) ==
    LET span == twiceStop - 2 * start
        n    == IF span <= 0 THEN 0 ELSE (span + 1) \div 2
    IN  [k \in 1..n |-> start + k - 1]

\* Segments with both columns filled from the first arange
Segments_samecolumn(np) ==
    LET first == arange(0, 2 * np - 1)
    IN  [k \in 1..np |-> <<first[k], first[k]>>]

\* lines = zeros((np, 2)); lines[:,0] = arange(0, np-0.5);
\* lines[:,1] = arange(1, np+0.5)
Segments(np) ==
    LET first  == arange(0, 2 * np - 1)
        second == arange(1, 2 * np + 1)
    IN  [k \in 1..np |-> <<first[k], second[k]>>]

\* MLineSource.create
MLineSource_create ==
    /\ pc = "set"
    /\ op' = "create"
    /\ LET derive  == IsNone(points) \/ len(points) = 0
           noxyz   == derive /\ (IsNone(x) \/ IsNone(y) \/ IsNone(z))
           badxyz  == derive /\ ~noxyz /\ ~c_ok(x, y, z)
           \* points.shape = (len(x), 3) needs len(x) * 3 elements
           badrows == derive /\ ~noxyz /\ ~badxyz
                      /\ len(x) * 3 # 3 * size(x)
           pts     == IF derive THEN c_(x, y, z, len(x)) ELSE points
           scafail == ~IsNone(scalars) /\ len(scalars) > 0
                      /\ (IsNone(x) \/ len(x) # len(scalars))
       IN  IF noxyz \/ badxyz \/ badrows
           THEN /\ raised' = (IF noxyz THEN "AttributeError" ELSE "ValueError")
                /\ pc' = "failed"
                /\ UNCHANGED <<points, dataset>>
           ELSE /\ points' = pts
                /\ IF scafail
                   THEN /\ raised' = (IF IsNone(x) THEN "TypeError"
                                      ELSE "AssertionError")
                        /\ pc' = "failed"
                        /\ UNCHANGED dataset
                   ELSE /\ raised' = "none"
                        /\ pc' = "created"
                        /\ dataset' =
                             [assigned |-> TRUE,
                              n_points |-> len(pts),
                              polys    |-> <<>>,
                              lines    |-> Segments(len(pts) - 1),
                              scalars  |-> IF ~IsNone(scalars)
                                              /\ len(scalars) > 0
                                           THEN Attr(ravel(scalars))
                                           ELSE Absent,
                              vectors  |-> Absent,
                              modified |-> 0]
    /\ UNCHANGED <<x, y, z, scalars, u, v, w, vectors, mask, m_data, nupd, args, fn>>

MLineSource_x_changed ==
    \E a \in CoordUpdates :
        /\ Assign("x") /\ x' = a /\ PatchPoints(0, a)
        /\ UNCHANGED <<y, z, scalars, u, v, w, vectors, mask>>

MLineSource_y_changed ==
    \E a \in CoordUpdates :
        /\ Assign("y") /\ y' = a /\ PatchPoints(1, a)
        /\ UNCHANGED <<x, z, scalars, u, v, w, vectors, mask>>

MLineSource_z_changed ==
    \E a \in CoordUpdates :
        /\ Assign("z") /\ z' = a /\ PatchPoints(2, a)
        /\ UNCHANGED <<x, y, scalars, u, v, w, vectors, mask>>

MLineSource_points_changed ==
    \E p \in PointsUpdates :
        /\ Assign("points") /\ points' = p
        /\ dataset' = update([dataset EXCEPT !.n_points = len(p)])
        /\ m_data' = data_changed(m_data)
        /\ raised' = "none"
        /\ UNCHANGED <<x, y, z, scalars, u, v, w, vectors, mask>>

MLineSource_scalars_changed ==
    \E s \in ScalarsUpdates :
        /\ Assign("scalars") /\ scalars' = s
        /\ dataset' = update([dataset EXCEPT !.scalars = Attr(ravel(s))])
        /\ m_data' = data_changed(m_data)
        /\ raised' = "none"
        /\ UNCHANGED <<x, y, z, points, u, v, w, vectors, mask>>

NextLine ==
    \/ MLineSource_create
    \/ add_data
    \/ MLineSource_x_changed
    \/ MLineSource_y_changed
    \/ MLineSource_z_changed
    \/ MLineSource_points_changed
    \/ MLineSource_scalars_changed

SpecLine == InitLine /\ [][NextLine]_vars

(***************************************************************************)
(* MArray2DSource, as array2d_source builds it.                            *)
(***************************************************************************)
\* a[i, j] of a 2-D array, i and j counted from 0
At(a, i, j) == a.data[i * a.shape[2] + j + 1]

\* whether a[i, j] can be read: a is 2-D and holds that element
Has(a, i, j) == Len(a.shape) = 2 /\ i < a.shape[1] /\ j < a.shape[2]

\* a.min()
min(a) == CHOOSE m \in {a.data[k] : k \in 1..Len(a.data)} :
              \A k \in 1..Len(a.data) : m <= a.data[k]

\* mask.astype('bool')
astype_bool(m) == [k \in 1..Len(m.data) |-> m.data[k] # 0]

\* a.astype('float')
astype_float(a) == [a EXCEPT !.dtype = "float"]

\* what a NaN becomes when it is stored into an integer element, where the
\* build stores anything at all
NaNAsInt == {0, 0 - Scale}

\* a[sel] = numpy.nan, the NaN arriving in an integer array as g
SetNaN(a, sel, g) ==
    [a EXCEPT !.data = [k \in 1..Len(a.data) |->
        IF sel[k] THEN (IF a.dtype = "float" THEN NaN ELSE g)
        ELSE a.data[k]]]

\* the half of numpy.mgrid[-nx/2.:nx/2, -ny/2.:ny/2] that runs along axis
XGrid(nx, ny) ==
    [dtype |-> "float", shape |-> <<nx, ny>>,
     data  |-> [k \in 1..(nx * ny) |->
                 (Scale * ((k - 1) \div ny)) - ((Scale * nx) \div 2)]]

YGrid(nx, ny) ==
    [dtype |-> "float", shape |-> <<nx, ny>>,
     data  |-> [k \in 1..(nx * ny) |->
                 (Scale * ((k - 1) % ny)) - ((Scale * ny) \div 2)]]

\* ArraySource(transpose_input_array=True, vector_data=..., origin=...,
\*             spacing=..., scalar_data=...)
ArraySource(vd, origin, spacing, sd) ==
    [attached |-> TRUE, origin |-> origin, spacing |-> spacing,
     vector_data |-> vd, scalar_data |-> sd, data_changed |-> 0,
     mlab_source |-> FALSE]

\* ArraySource taking new scalar_data: it refreshes its image data and sets
\* its own data_changed
scalar_data_changed(md, s) == data_changed([md EXCEPT !.scalar_data = s])

\* ds.image_data
image_data(ds) ==
    [assigned |-> TRUE, origin |-> ds.origin, spacing |-> ds.spacing,
     modified |-> 0]

Sides == 1..MaxSide

\* a scalar array of whole numbers 1, 2, ... of element type d
Whole(s, d, base) ==
    [dtype |-> d, shape |-> s,
     data  |-> [k \in 1..Prod(s) |-> Scale * (base + k - 1)]]

\* masks of the shape of the scalars: nothing masked, or one position
Masks(s) ==
    {[dtype |-> "int", shape |-> s, data |-> [k \in 1..Prod(s) |-> 0]]}
    \cup {[dtype |-> "int", shape |-> s,
           data  |-> [k \in 1..Prod(s) |-> IF k = hit THEN Scale ELSE 0]] :
             hit \in 1..Prod(s)}

\* x and y as array2d_source passes them on: absent, 2-D index grids, 1-D
Array2DCoords(nx, ny) ==
    {[x |-> None, y |-> None],
     [x |-> XGrid(nx, ny), y |-> YGrid(nx, ny)],
     [x |-> Ramp(<<nx>>, "float", 0), y |-> Ramp(<<ny>>, "float", 0)]}

InitArray2D ==
    /\ \E nx \in Sides, ny \in Sides, d \in DTypes :
         /\ scalars = Whole(<<nx, ny>>, d, 1)
         /\ mask \in {None} \cup Masks(<<nx, ny>>)
         /\ \E c \in Array2DCoords(nx, ny) : x = c.x /\ y = c.y
    /\ z = None /\ points = None
    /\ u = None /\ v = None /\ w = None /\ vectors = None
    /\ dataset = NoDataset
    /\ m_data = NoSource
    /\ raised = "none"
    /\ pc = "set"
    /\ op = "set"
    /\ nupd = 0
    /\ args = <<>>
    /\ fn = "MArray2DSource"

\* MArray2DSource.create
MArray2DSource_create ==
    /\ pc = "set"
    /\ op' = "create"
    /\ \E refuses \in BOOLEAN, g \in NaNAsInt :
         LET masking == ~IsNone(mask) /\ len(mask) > 0
             nanfail == masking /\ scalars.dtype = "int" /\ refuses
             sc      == IF masking
                        THEN astype_float(SetNaN(scalars, astype_bool(mask), g))
                        ELSE scalars
             implied == IsNone(x) \/ len(x) = 0
             xx      == IF implied THEN XGrid(sc.shape[1], sc.shape[2]) ELSE x
             yy      == IF implied THEN YGrid(sc.shape[1], sc.shape[2]) ELSE y
             noindex == ~(Has(xx, 1, 0) /\ Has(xx, 0, 0)
                          /\ Has(yy, 0, 1) /\ Has(yy, 0, 0))
             dx      == At(xx, 1, 0) - At(xx, 0, 0)
             dy      == At(yy, 0, 1) - At(yy, 0, 0)
             ds      == ArraySource(None, <<min(xx), min(yy), 0>>,
                                    <<dx, dy, Scale>>, sc)
         IN  IF nanfail
             THEN /\ raised' = "ValueError"
                  /\ pc' = "failed"
                  /\ UNCHANGED <<x, y, z, scalars, dataset, m_data>>
             ELSE /\ scalars' = sc
                  /\ x' = xx
                  /\ y' = yy
                  /\ z' = IF implied THEN Whole(<<1>>, "int", 0) ELSE z
                  /\ IF noindex
                     THEN /\ raised' = "IndexError"
                          /\ pc' = "failed"
                          /\ UNCHANGED <<dataset, m_data>>
                     ELSE /\ raised' = "none"
                          /\ pc' = "created"
                          /\ dataset' = image_data(ds)
                          /\ m_data' = m_data_changed(ds)
    /\ UNCHANGED <<points, u, v, w, vectors, mask, nupd, args, fn>>

\* tools._add_data(data_source.m_data, ...)
add_source ==
    /\ pc = "created"
    /\ pc' = "attached"
    /\ op' = "add_data"
    /\ UNCHANGED <<x, y, z, points, scalars, u, v, w, vectors, mask,
                   dataset, m_data, raised, nupd, args, fn>>

\* the x and y a caller assigns: the index grids moved by one
Array2DCoordUpdates ==
    {[dtype |-> "float", shape |-> scalars.shape,
      data  |-> [k \in 1..Prod(scalars.shape) |->
                  Scale * (1 + ((k - 1) \div scalars.shape[2]))]]}

\* the body of MArray2DSource._xyz_changed, run with x and y as given
xyz_changed(xx, yy) ==
    IF Has(xx, 1, 0) /\ Has(yy, 0, 1)
    THEN /\ dataset' = update([dataset EXCEPT
                 !.origin  = <<min(xx), min(yy), 0>>,
                 !.spacing = <<At(xx, 1, 0) - At(xx, 0, 0),
                               At(yy, 0, 1) - At(yy, 0, 0), Scale>>])
         /\ m_data' = data_changed(m_data)
         /\ raised' = "none"
    ELSE /\ raised' = "IndexError"
         /\ UNCHANGED <<dataset, m_data>>

\* MArray2DSource._xyz_changed, on an assignment to x or to y
MArray2DSource_xyz_changed ==
    \E a \in Array2DCoordUpdates :
        \/ /\ Assign("x") /\ x' = a /\ xyz_changed(a, y)
           /\ UNCHANGED <<y, z, points, scalars, u, v, w, vectors, mask>>
        \/ /\ Assign("y") /\ y' = a /\ xyz_changed(x, a)
           /\ UNCHANGED <<x, z, points, scalars, u, v, w, vectors, mask>>

\* MArray2DSource._scalars_changed: with a mask its first statement reads
\* the local name scalars, which is bound only two lines further down
MArray2DSource_scalars_changed ==
    \E d \in DTypes :
        LET s == Whole(scalars.shape, d, 5)
        IN  /\ Assign("scalars")
            /\ scalars' = s
            /\ IF ~IsNone(mask) /\ len(mask) > 0
               THEN /\ raised' = "UnboundLocalError"
                    /\ UNCHANGED <<m_data, dataset>>
               ELSE /\ raised' = "none"
                    /\ m_data' = scalar_data_changed(m_data, s)
                    /\ dataset' = update(dataset)
            /\ UNCHANGED <<x, y, z, points, u, v, w, vectors, mask>>

NextArray2D ==
    \/ MArray2DSource_create
    \/ add_source
    \/ MArray2DSource_xyz_changed
    \/ MArray2DSource_scalars_changed

SpecArray2D == InitArray2D /\ [][NextArray2D]_vars

(***************************************************************************)
(* MArraySource, as vector_field and scalar_field build it.                *)
(***************************************************************************)
\* a[i, j, k] of a 3-D array, the indices counted from 0
At3(a, i, j, k) == a.data[(i * a.shape[2] + j) * a.shape[3] + k + 1]

\* whether a[i, j, k] can be read: a is 3-D and holds that element
Has3(a, i, j, k) ==
    /\ Len(a.shape) = 3
    /\ i < a.shape[1] /\ j < a.shape[2] /\ k < a.shape[3]

\* a coordinate array of a regular grid of shape s: along axis it starts at
\* o and advances by st, along the other axes it is constant
Coord3(s, axis, o, st, d) ==
    [dtype |-> d, shape |-> s,
     data  |-> [k \in 1..Prod(s) |->
                 o + st * (((k - 1) \div Prod(SubSeq(s, axis + 1, Len(s))))
                           % s[axis])]]

GridShapes == {<<a, b, c>> : a \in Sides, b \in Sides, c \in Sides}

\* what vector_field and scalar_field hand to data_source.set(...): the
\* coordinates of the index grid with vector components, with scalars, or
\* with a combined vector array
ArrayInputs ==
    {[x |-> indices(s, 1), y |-> indices(s, 2), z |-> indices(s, 3),
      u |-> Ramp(s, "float", 0), v |-> Ramp(s, "float", 1),
      w |-> Ramp(s, "float", 2), vectors |-> None, scalars |-> None] :
        s \in GridShapes}
    \cup {[x |-> indices(s, 1), y |-> indices(s, 2), z |-> indices(s, 3),
           u |-> None, v |-> None, w |-> None, vectors |-> None,
           scalars |-> Ramp(s, d, 0)] : s \in GridShapes, d \in DTypes}
    \cup {[x |-> indices(s, 1), y |-> indices(s, 2), z |-> indices(s, 3),
           u |-> None, v |-> None, w |-> None,
           vectors |-> Ramp(s \o <<3>>, "float", 0), scalars |-> None] :
             s \in GridShapes}

InitArray ==
    /\ \E in \in ArrayInputs :
         /\ x = in.x /\ y = in.y /\ z = in.z /\ scalars = in.scalars
         /\ u = in.u /\ v = in.v /\ w = in.w /\ vectors = in.vectors
    /\ points = None
    /\ mask = None
    /\ dataset = NoDataset
    /\ m_data = NoSource
    /\ raised = "none"
    /\ pc = "set"
    /\ op = "set"
    /\ nupd = 0
    /\ args = <<>>
    /\ fn = "MArraySource"

\* vectors.shape = (len(u), len(v), len(w), 3)
CombinedShape(a, b, c) == <<len(a), len(b), len(c), 3>>

\* MArraySource.create
MArraySource_create ==
    /\ pc = "set"
    /\ op' = "create"
    /\ LET combine == (IsNone(vectors) \/ len(vectors) = 0)
                      /\ ~IsNone(u) /\ len(u) > 0
           nouvw   == combine /\ (IsNone(v) \/ IsNone(w))
           baduvw  == combine /\ ~nouvw /\ ~c_ok(u, v, w)
           shp     == CombinedShape(u, v, w)
           \* the new shape must hold exactly the elements of the array
           badshp  == combine /\ ~nouvw /\ ~baduvw
                      /\ Prod(shp) # 3 * size(u)
           vecs    == IF combine
                      THEN [c_(u, v, w, size(u)) EXCEPT !.shape = shp]
                      ELSE vectors
           vecfail == ~IsNone(vecs) /\ len(vecs) > 0 /\ len(x) # len(vecs)
           scafail == ~IsNone(scalars) /\ len(scalars) > 0
                      /\ len(x) # len(scalars)
           noindex == ~(Has3(x, 1, 0, 0) /\ Has3(y, 0, 1, 0)
                        /\ Has3(z, 0, 0, 1))
           ds      == ArraySource(vecs, <<min(x), min(y), min(z)>>,
                                  <<At3(x, 1, 0, 0) - At3(x, 0, 0, 0),
                                    At3(y, 0, 1, 0) - At3(y, 0, 0, 0),
                                    At3(z, 0, 0, 1) - At3(z, 0, 0, 0)>>,
                                  scalars)
       IN  IF nouvw \/ baduvw \/ badshp
           THEN /\ raised' = (IF nouvw THEN "AttributeError" ELSE "ValueError")
                /\ pc' = "failed"
                /\ UNCHANGED <<vectors, dataset, m_data>>
           ELSE /\ vectors' = vecs
                /\ IF vecfail \/ scafail
                   THEN /\ raised' = "AssertionError"
                        /\ pc' = "failed"
                        /\ UNCHANGED <<dataset, m_data>>
                   ELSE IF noindex
                   THEN /\ raised' = "IndexError"
                        /\ pc' = "failed"
                        /\ UNCHANGED <<dataset, m_data>>
                   ELSE /\ raised' = "none"
                        /\ pc' = "created"
                        /\ dataset' = image_data(ds)
                        /\ m_data' = m_data_changed(ds)
    /\ UNCHANGED <<x, y, z, points, scalars, u, v, w, mask, nupd, args, fn>>

\* the arrays a caller assigns to the coordinate running along axis: a
\* 2 by 2 by 2 grid starting at 1 or at 2 with a step of a half, or a
\* single sample
ArrayCoordUpdates(axis) ==
    {Coord3(<<2, 2, 2>>, axis, o, 1, "float") : o \in {Scale, 2 * Scale}}
    \cup {Coord3(<<1, 1, 1>>, axis, Scale, 1, "float")}

\* xyz3_changed recomputing the spacing but not the origin
xyz3_changed_spacingonly(xx, yy, zz) ==
    IF Has3(xx, 1, 0, 0) /\ Has3(yy, 0, 1, 0) /\ Has3(zz, 0, 0, 1)
    THEN /\ dataset' = update([dataset EXCEPT
                 !.spacing = <<At3(xx, 1, 0, 0) - At3(xx, 0, 0, 0),
                               At3(yy, 0, 1, 0) - At3(yy, 0, 0, 0),
                               At3(zz, 0, 0, 1) - At3(zz, 0, 0, 0)>>])
         /\ m_data' = data_changed(m_data)
         /\ raised' = "none"
    ELSE /\ raised' = "IndexError"
         /\ UNCHANGED <<dataset, m_data>>

\* the body of MArraySource._xyz_changed, run with x, y and z as given
xyz3_changed(xx, yy, zz) ==
    IF Has3(xx, 1, 0, 0) /\ Has3(yy, 0, 1, 0) /\ Has3(zz, 0, 0, 1)
    THEN /\ dataset' = update([dataset EXCEPT
                 !.origin  = <<min(xx), min(yy), min(zz)>>,
                 !.spacing = <<At3(xx, 1, 0, 0) - At3(xx, 0, 0, 0),
                               At3(yy, 0, 1, 0) - At3(yy, 0, 0, 0),
                               At3(zz, 0, 0, 1) - At3(zz, 0, 0, 0)>>])
         /\ m_data' = data_changed(m_data)
         /\ raised' = "none"
    ELSE /\ raised' = "IndexError"
         /\ UNCHANGED <<dataset, m_data>>

\* MArraySource._xyz_changed, on an assignment to x, to y or to z
MArraySource_xyz_changed ==
    \/ \E a \in ArrayCoordUpdates(1) :
           /\ Assign("x") /\ x' = a /\ xyz3_changed(a, y, z)
           /\ UNCHANGED <<y, z, points, scalars, u, v, w, vectors, mask>>
    \/ \E a \in ArrayCoordUpdates(2) :
           /\ Assign("y") /\ y' = a /\ xyz3_changed(x, a, z)
           /\ UNCHANGED <<x, z, points, scalars, u, v, w, vectors, mask>>
    \/ \E a \in ArrayCoordUpdates(3) :
           /\ Assign("z") /\ z' = a /\ xyz3_changed(x, y, a)
           /\ UNCHANGED <<x, y, points, scalars, u, v, w, vectors, mask>>

NextArray ==
    \/ MArraySource_create
    \/ add_source
    \/ MArraySource_xyz_changed

SpecArray == InitArray /\ [][NextArray]_vars

(***************************************************************************)
(* MGridSource, as grid_source builds it.                                  *)
(***************************************************************************)
\* grid_source(x, y, z, scalars=...): scalars defaults to z
GridInputs ==
    {[x |-> Ramp(<<nx, ny>>, d, 0), y |-> Ramp(<<nx, ny>>, d, 1),
      z |-> Ramp(<<nx, ny>>, d, 2), scalars |-> Ramp(<<nx, ny>>, d, sb)] :
        nx \in Sides, ny \in Sides, d \in DTypes, sb \in {2, 4}}
    \cup {[x |-> Ramp(<<nx, ny>>, "float", 0),
           y |-> Ramp(IF flat THEN <<nx * ny>> ELSE <<ny, nx>>, "float", 1),
           z |-> Ramp(<<nx, ny>>, "float", 2),
           scalars |-> Ramp(<<nx, ny>>, "float", 2)] :
             nx \in Sides, ny \in Sides, flat \in BOOLEAN}
    \cup {[x |-> Ramp(<<nx, ny>>, "float", 0), y |-> Ramp(<<nx, ny>>, "float", 1),
           z |-> Ramp(<<nx, ny>>, "float", 2),
           scalars |-> Ramp(<<nx * ny>>, "float", 4)] :
             nx \in Sides, ny \in Sides}

InitGrid ==
    /\ \E in \in GridInputs :
         /\ x = in.x /\ y = in.y /\ z = in.z /\ scalars = in.scalars
    /\ points = None
    /\ u = None /\ v = None /\ w = None /\ vectors = None
    /\ mask = None
    /\ dataset = NoDataset
    /\ m_data = NoSource
    /\ raised = "none"
    /\ pc = "set"
    /\ op = "set"
    /\ nupd = 0
    /\ args = <<>>
    /\ fn = "MGridSource"

\* Triangles with the rows of the grid strided by nx instead of ny
Triangles_rowstride(nx, ny) ==
    LET nt    == (nx - 1) * (ny - 1)
        i(c)  == c \div (ny - 1)
        j(c)  == c % (ny - 1)
        t1(c) == <<i(c) * nx + j(c), (i(c) + 1) * nx + j(c),
                   (i(c) + 1) * nx + (j(c) + 1)>>
        t2(c) == <<(i(c) + 1) * nx + (j(c) + 1), i(c) * nx + (j(c) + 1),
                   i(c) * nx + j(c)>>
    IN  [r \in 1..(2 * nt) |-> IF r <= nt THEN t1(r - 1) ELSE t2(r - 1 - nt)]

\* i, j = numpy.mgrid[0:nx-1, 0:ny-1], ravelled; t1 and t2 of each cell;
\* triangles[0:nt] = t1, triangles[nt:] = t2
Triangles(nx, ny) ==
    LET nt    == (nx - 1) * (ny - 1)
        i(c)  == c \div (ny - 1)
        j(c)  == c % (ny - 1)
        t1(c) == <<i(c) * ny + j(c), (i(c) + 1) * ny + j(c),
                   (i(c) + 1) * ny + (j(c) + 1)>>
        t2(c) == <<(i(c) + 1) * ny + (j(c) + 1), i(c) * ny + (j(c) + 1),
                   i(c) * ny + j(c)>>
    IN  [r \in 1..(2 * nt) |-> IF r <= nt THEN t1(r - 1) ELSE t2(r - 1 - nt)]

\* MGridSource.create
MGridSource_create ==
    /\ pc = "set"
    /\ op' = "create"
    /\ LET shapesok == /\ Len(x.shape) = 2 /\ Len(y.shape) = 2
                       /\ Len(z.shape) = 2
                       /\ x.shape = y.shape /\ y.shape = z.shape
           nx       == x.shape[1]
           ny       == x.shape[2]
           derive   == IsNone(points) \/ len(points) = 0
           pts      == IF derive THEN c_(x, y, z, nx * ny) ELSE points
           withsc   == ~IsNone(scalars) /\ len(scalars) > 0
           scafail  == withsc /\ x.shape # scalars.shape
       IN  IF ~shapesok
           THEN /\ raised' = "AssertionError"
                /\ pc' = "failed"
                /\ UNCHANGED <<points, dataset>>
           ELSE /\ points' = pts
                /\ IF scafail
                   THEN /\ raised' = "AssertionError"
                        /\ pc' = "failed"
                        /\ UNCHANGED dataset
                   ELSE /\ raised' = "none"
                        /\ pc' = "created"
                        /\ dataset' =
                             [assigned |-> TRUE,
                              n_points |-> len(pts),
                              polys    |-> Triangles(nx, ny),
                              lines    |-> <<>>,
                              scalars  |-> IF withsc
                                           THEN Attr(ravel(scalars))
                                           ELSE Absent,
                              vectors  |-> Absent,
                              modified |-> 0]
    /\ UNCHANGED <<x, y, z, scalars, u, v, w, vectors, mask, m_data, nupd, args, fn>>

\* the 2-D arrays a caller assigns to x, y or z: of the shape the grid was
\* created with, which the scalars keep
GridCoordUpdates == {Ramp(scalars.shape, d, 3) : d \in DTypes}

\* the body shared by MGridSource._x_changed, _y_changed and _z_changed for
\* the assigned array a: nx, ny = self.x.shape; a.shape = (nx*ny,);
\* self.points[:, k] = a; self.update().  xnow is self.x as the handler
\* reads it; the result is the array the trait holds afterwards.
GridPatch(k, a, xnow, held) ==
    IF Len(xnow.shape) # 2
    THEN /\ held = a
         /\ raised' = "ValueError"
         /\ UNCHANGED <<points, dataset, m_data>>
    ELSE IF size(a) # xnow.shape[1] * xnow.shape[2]
    THEN /\ held = a
         /\ raised' = "ValueError"
         /\ UNCHANGED <<points, dataset, m_data>>
    ELSE /\ held = ravel(a)
         /\ PatchPoints(k, ravel(a))

MGridSource_x_changed ==
    \E a \in GridCoordUpdates :
        /\ Assign("x") /\ GridPatch(0, a, a, x')
        /\ UNCHANGED <<y, z, scalars, u, v, w, vectors, mask>>

MGridSource_y_changed ==
    \E a \in GridCoordUpdates :
        /\ Assign("y") /\ GridPatch(1, a, x, y')
        /\ UNCHANGED <<x, z, scalars, u, v, w, vectors, mask>>

MGridSource_z_changed ==
    \E a \in GridCoordUpdates :
        /\ Assign("z") /\ GridPatch(2, a, x, z')
        /\ UNCHANGED <<x, y, scalars, u, v, w, vectors, mask>>

MGridSource_points_changed ==
    \E p \in {Rows3(dataset.n_points, "float", 5)} :
        /\ Assign("points") /\ points' = p
        /\ dataset' = update([dataset EXCEPT !.n_points = len(p)])
        /\ m_data' = data_changed(m_data)
        /\ raised' = "none"
        /\ UNCHANGED <<x, y, z, scalars, u, v, w, vectors, mask>>

MGridSource_scalars_changed ==
    \E s \in {Ramp(scalars.shape, "float", 6)} :
        /\ Assign("scalars") /\ scalars' = s
        /\ dataset' = update([dataset EXCEPT !.scalars = Attr(ravel(s))])
        /\ m_data' = data_changed(m_data)
        /\ raised' = "none"
        /\ UNCHANGED <<x, y, z, points, u, v, w, vectors, mask>>

NextGrid ==
    \/ MGridSource_create
    \/ add_data
    \/ MGridSource_x_changed
    \/ MGridSource_y_changed
    \/ MGridSource_z_changed
    \/ MGridSource_points_changed
    \/ MGridSource_scalars_changed

SpecGrid == InitGrid /\ [][NextGrid]_vars

(***************************************************************************)
(* Argument processing: convert_to_arrays and the process_regular_*        *)
(* functions, which turn the positional arguments of a constructor         *)
(* function into the canonical coordinate and field arrays.                *)
(***************************************************************************)
\* most positional arguments a caller passes
MaxArgs == 6

\* a function object passed as an argument
Callable == [dtype |-> "callable", shape |-> <<>>, data |-> <<>>]

callable(a) == a.dtype = "callable"

\* a (nested) Python list of integers: an iterable without a shape attribute
List(s, base) ==
    [dtype |-> "list", shape |-> s,
     data  |-> [k \in 1..Prod(s) |-> Scale * (base + k - 1)]]

\* what a caller passes in one position: a 3-D array, a 2-D array, a list of
\* two numbers, or a function
ArgValues ==
    {Ramp(<<1, 1, 2>>, "float", 0), Ramp(<<1, 2>>, "float", 0),
     List(<<2>>, 0), Callable}

ArgLists == UNION {[1..n -> ArgValues] : n \in 0..MaxArgs}

\* the shapes of the arrays a function argument returns when it is called
ResultShapes == {<<1, 1, 2>>, <<1, 2>>, <<2>>}

\* numpy.array(arg)
array(a) == IF a.dtype = "list" THEN [a EXCEPT !.dtype = "int"] ELSE a

\* convert_to_arrays: what has no shape and is not callable becomes an array
convert_to_arrays(as) ==
    [i \in 1..Len(as) |->
        IF as[i].dtype = "list" /\ ~callable(as[i]) THEN array(as[i])
        ELSE as[i]]

\* the outcome of a call: the exception raised and the local arrays bound
\* when the call ended
Raise(e, locals) == [raised |-> e, out |-> locals]

Return(t) == [raised |-> "none", out |-> t]

\* the closing assert of process_regular_vectors and process_regular_scalars
\* with the comparison of shapes left out
ShapesAsserted_unchecked(t) ==
    IF \E i \in 1..Len(t) : callable(t[i])
    THEN Raise("AttributeError", t)
    ELSE Return(t)

\* assert (x.shape == y.shape and ... ), "argument shape are not equal";
\* return the tuple.  A None (the s of the three-argument form) is skipped.
ShapesAsserted(t) ==
    IF \E i \in 1..Len(t) : callable(t[i])
    THEN Raise("AttributeError", t)
    ELSE IF \E i, j \in 1..Len(t) :
               ~IsNone(t[i]) /\ ~IsNone(t[j]) /\ t[i].shape # t[j].shape
    THEN Raise("AssertionError", t)
    ELSE Return(t)

\* process_regular_vectors without its final else: another count leaves
\* x unbound at the closing assert
process_regular_vectors_noelse(as0, rs) ==
    LET as == convert_to_arrays(as0)
    IN  IF Len(as) = 3
        THEN IF callable(as[1]) THEN Raise("AttributeError", <<>>)
             ELSE IF Len(as[1].shape) # 3 THEN Raise("AssertionError", <<>>)
             ELSE ShapesAsserted(<<indices(as[1].shape, 1),
                                   indices(as[1].shape, 2),
                                   indices(as[1].shape, 3),
                                   as[1], as[2], as[3]>>)
        ELSE IF Len(as) = 6
        THEN ShapesAsserted(as)
        ELSE IF Len(as) = 4
        THEN IF ~callable(as[4]) THEN Raise("ValueError", <<>>)
             ELSE ShapesAsserted(<<as[1], as[2], as[3],
                                   Ramp(rs, "float", 0), Ramp(rs, "float", 1),
                                   Ramp(rs, "float", 2)>>)
        ELSE Raise("UnboundLocalError", <<>>)

\* process_regular_vectors(*args); rs is the shape of what a function
\* argument returns
process_regular_vectors(as0, rs) ==
    LET as == convert_to_arrays(as0)
    IN  IF Len(as) = 3
        THEN IF callable(as[1]) THEN Raise("AttributeError", <<>>)
             ELSE IF Len(as[1].shape) # 3 THEN Raise("AssertionError", <<>>)
             ELSE ShapesAsserted(<<indices(as[1].shape, 1),
                                   indices(as[1].shape, 2),
                                   indices(as[1].shape, 3),
                                   as[1], as[2], as[3]>>)
        ELSE IF Len(as) = 6
        THEN ShapesAsserted(as)
        ELSE IF Len(as) = 4
        THEN IF ~callable(as[4]) THEN Raise("ValueError", <<>>)
             ELSE ShapesAsserted(<<as[1], as[2], as[3],
                                   Ramp(rs, "float", 0), Ramp(rs, "float", 1),
                                   Ramp(rs, "float", 2)>>)
        ELSE Raise("ValueError", <<>>)

\* process_regular_scalars(*args)
process_regular_scalars(as0, rs) ==
    LET as == convert_to_arrays(as0)
    IN  IF Len(as) = 1
        THEN IF callable(as[1]) THEN Raise("AttributeError", <<>>)
             ELSE IF Len(as[1].shape) # 3 THEN Raise("AssertionError", <<>>)
             ELSE ShapesAsserted(<<indices(as[1].shape, 1),
                                   indices(as[1].shape, 2),
                                   indices(as[1].shape, 3), as[1]>>)
        ELSE IF Len(as) = 3
        THEN ShapesAsserted(<<as[1], as[2], as[3], None>>)
        ELSE IF Len(as) = 4
        THEN ShapesAsserted(<<as[1], as[2], as[3],
                              IF callable(as[4]) THEN Ramp(rs, "float", 0)
                              ELSE as[4]>>)
        ELSE Raise("ValueError", <<>>)

\* TwoDAsserted with the assertion left out
TwoDAsserted_unchecked(t) == Return(t)

\* assert len(s.shape)==2, "2D array required"; return x, y, s
TwoDAsserted(t) ==
    IF callable(t[3]) THEN Raise("AttributeError", t)
    ELSE IF Len(t[3].shape) # 2 THEN Raise("AssertionError", t)
    ELSE Return(t)

\* process_regular_2d_scalars(*args), called without a mask keyword
process_regular_2d_scalars(as0, rs) ==
    LET as == convert_to_arrays(as0)
    IN  IF Len(as) = 1
        THEN IF callable(as[1]) THEN Raise("AttributeError", <<>>)
             ELSE IF Len(as[1].shape) # 2 THEN Raise("AssertionError", <<>>)
             ELSE TwoDAsserted(<<indices(as[1].shape, 1),
                                 indices(as[1].shape, 2), as[1]>>)
        ELSE IF Len(as) = 3
        THEN TwoDAsserted(<<as[1], as[2],
                            IF callable(as[3]) THEN Ramp(rs, "float", 0)
                            ELSE as[3]>>)
        ELSE Raise("ValueError", <<>>)

(***************************************************************************)
(* The constructor functions and the direct calls of the argument          *)
(* processing functions.  fn is the function called and args its           *)
(* positional arguments; a constructor runs in the steps set, create and   *)
(* add_data, the adapter's steps above.                                    *)
(***************************************************************************)
Processors == {"process_regular_vectors", "process_regular_scalars",
               "process_regular_2d_scalars"}

Constructors == {"vector_scatter", "scalar_scatter", "line_source",
                 "grid_source"}

\* grid_source(x, y, z, **kwargs) takes exactly three positional arguments
InitCalls ==
    /\ fn \in Processors \cup Constructors
    /\ args \in ArgLists
    /\ fn = "grid_source" => Len(args) = 3
    /\ x = None /\ y = None /\ z = None /\ points = None /\ scalars = None
    /\ u = None /\ v = None /\ w = None /\ vectors = None
    /\ mask = None
    /\ dataset = NoDataset
    /\ m_data = NoSource
    /\ raised = "none"
    /\ pc = "called"
    /\ op = "call"
    /\ nupd = 0

\* element i of the local arrays of a call, None where the call bound fewer
Local(t, i) == IF i <= Len(t) THEN t[i] ELSE None

\* a direct call of one of the processing functions: afterwards x, y, z, u,
\* v, w and scalars hold the arrays the call had bound when it returned or
\* raised
Call(name, r) ==
    /\ pc = "called"
    /\ fn = name
    /\ op' = name
    /\ raised' = r.raised
    /\ pc' = IF r.raised = "none" THEN "returned" ELSE "failed"
    /\ x' = Local(r.out, 1)
    /\ y' = Local(r.out, 2)
    /\ UNCHANGED <<points, vectors, mask, dataset, m_data, nupd, args, fn>>

Call_process_regular_vectors ==
    \E rs \in ResultShapes :
        LET r == process_regular_vectors(args, rs)
        IN  /\ Call("process_regular_vectors", r)
            /\ z' = Local(r.out, 3)
            /\ u' = Local(r.out, 4)
            /\ v' = Local(r.out, 5)
            /\ w' = Local(r.out, 6)
            /\ UNCHANGED scalars

Call_process_regular_scalars ==
    \E rs \in ResultShapes :
        LET r == process_regular_scalars(args, rs)
        IN  /\ Call("process_regular_scalars", r)
            /\ z' = Local(r.out, 3)
            /\ scalars' = Local(r.out, 4)
            /\ UNCHANGED <<u, v, w>>

Call_process_regular_2d_scalars ==
    \E rs \in ResultShapes :
        LET r == process_regular_2d_scalars(args, rs)
        IN  /\ Call("process_regular_2d_scalars", r)
            /\ scalars' = Local(r.out, 3)
            /\ UNCHANGED <<z, u, v, w>>

\* data_source.set(..., trait_change_notify=notify): the number of change
\* hooks that run
set(names, notify) == IF notify THEN Cardinality(names) ELSE 0

\* the first statements of a constructor function, up to data_source.set:
\* r is the outcome of its argument processing, attrs the traits it sets
Construct(name, r, attrs) ==
    /\ pc = "called"
    /\ fn = name
    /\ op' = name
    /\ raised' = r.raised
    /\ IF r.raised # "none"
       THEN /\ pc' = "failed"
            /\ UNCHANGED <<x, y, z, u, v, w, scalars, nupd>>
       ELSE /\ pc' = "set"
            /\ nupd' = nupd + set(DOMAIN attrs, FALSE)
            /\ x' = attrs.x /\ y' = attrs.y /\ z' = attrs.z
            /\ scalars' = attrs.scalars
            /\ IF "u" \in DOMAIN attrs
               THEN u' = attrs.u /\ v' = attrs.v /\ w' = attrs.w
               ELSE UNCHANGED <<u, v, w>>
    /\ UNCHANGED <<points, vectors, mask, dataset, m_data, args, fn>>

\* the scalars keyword of vector_scatter and grid_source
KeywordScalars == {None, Ramp(<<2>>, "float", 0)}

\* vector_scatter up to data_source.set(x=x, ..., scalars=scalars)
vector_scatter ==
    \E rs \in ResultShapes, sc \in KeywordScalars :
        LET r == process_regular_vectors(args, rs)
        IN  Construct("vector_scatter", r,
                      [x |-> Local(r.out, 1), y |-> Local(r.out, 2),
                       z |-> Local(r.out, 3), u |-> Local(r.out, 4),
                       v |-> Local(r.out, 5), w |-> Local(r.out, 6),
                       scalars |-> sc])

\* scalar_scatter up to data_source.set(x=x, y=y, z=z, scalars=s)
scalar_scatter ==
    \E rs \in ResultShapes :
        LET r == process_regular_scalars(args, rs)
            s == Local(r.out, 4)
        IN  Construct("scalar_scatter", r,
                      [x |-> Local(r.out, 1), y |-> Local(r.out, 2),
                       z |-> Local(r.out, 3),
                       scalars |-> IF IsNone(s) THEN s ELSE ravel(s)])

\* line_source up to data_source.set(x=x, y=y, z=z, scalars=s)
line_source ==
    \E rs \in ResultShapes :
        LET r == IF Len(args) = 1 THEN Raise("ValueError", <<>>)
                 ELSE process_regular_scalars(args, rs)
        IN  Construct("line_source", r,
                      [x |-> Local(r.out, 1), y |-> Local(r.out, 2),
                       z |-> Local(r.out, 3), scalars |-> Local(r.out, 4)])

\* grid_source up to data_source.set(x=x, y=y, z=z, scalars=scalars): the
\* Array traits turn a list into an array and refuse a function
grid_source ==
    \E sc \in KeywordScalars :
        LET r == IF \E i \in 1..3 : callable(args[i])
                 THEN Raise("TraitError", <<>>)
                 ELSE Return(<<array(args[1]), array(args[2]), array(args[3])>>)
        IN  Construct("grid_source", r,
                      [x |-> Local(r.out, 1), y |-> Local(r.out, 2),
                       z |-> Local(r.out, 3),
                       scalars |-> IF IsNone(sc) THEN Local(r.out, 3)
                                   ELSE sc])

NextCalls ==
    \/ Call_process_regular_vectors
    \/ Call_process_regular_scalars
    \/ Call_process_regular_2d_scalars
    \/ vector_scatter
    \/ scalar_scatter
    \/ line_source
    \/ grid_source
    \/ (fn \in {"vector_scatter", "scalar_scatter"} /\ MGlyphSource_create)
    \/ (fn = "line_source" /\ MLineSource_create)
    \/ (fn = "grid_source" /\ MGridSource_create)
    \/ add_data

SpecCalls == InitCalls /\ [][NextCalls]_vars

(***************************************************************************)
(* Claims about MGlyphSource.                                              *)
(***************************************************************************)
\* the values of a 1-D array as the element type d stores them
Stored(a, d) == [r \in 1..size(a) |-> Cast(a.data[r], d)]

\* the step is an assignment of a, of the length of the point count, to axis k
AxisAssigned(name, k, a) ==
    /\ op' = name
    /\ nupd' = nupd + 1
    /\ a.shape = <<len(points)>>

OtherColumnsKept(k) ==
    /\ points'.shape = points.shape
    /\ points'.dtype = points.dtype
    /\ \A j \in (0..2) \ {k} : Column(points', j) = Column(points, j)

\* C1 as stated: an assignment to one of x, y, z of the length of the point
\* count makes that column of the stored points equal to the new values and
\* leaves the other two columns as they were.
C1_ColumnEqualsNewValues ==
    [][ /\ AxisAssigned("x", 0, x') =>
            (Column(points', 0) = x'.data /\ OtherColumnsKept(0))
        /\ AxisAssigned("y", 1, y') =>
            (Column(points', 1) = y'.data /\ OtherColumnsKept(1))
        /\ AxisAssigned("z", 2, z') =>
            (Column(points', 2) = z'.data /\ OtherColumnsKept(2)) ]_vars

\* C1 amended: an assignment to one of x, y, z of the length of the point
\* count makes that column of the stored points equal to the new values
\* converted to the element type of the points array (an integer-typed
\* points array drops the fractions), and leaves the other two columns, the
\* shape and the element type of the points array as they were.
C1_ColumnHoldsConvertedValues ==
    [][ /\ AxisAssigned("x", 0, x') =>
            (Column(points', 0) = Stored(x', points.dtype)
             /\ OtherColumnsKept(0))
        /\ AxisAssigned("y", 1, y') =>
            (Column(points', 1) = Stored(y', points.dtype)
             /\ OtherColumnsKept(1))
        /\ AxisAssigned("z", 2, z') =>
            (Column(points', 2) = Stored(z', points.dtype)
             /\ OtherColumnsKept(2)) ]_vars

\* C1 witness: y of two points was replaced; x and z still hold what create
\* stored and column 1 holds the new values.
C1_Witness ==
    /\ op = "y" /\ raised = "none" /\ nupd = 1
    /\ y = Ramp(<<2>>, "float", 3)
    /\ points.dtype = "float"
    /\ Column(points, 1) = y.data
    /\ Column(points, 0) = x.data
    /\ Column(points, 2) = z.data
    /\ Column(points, 1) # Ramp(<<2>>, "float", 1).data

\* C9: create() without combined points, on x, y, z of one shape of any
\* dimensionality, stores one row (x[k], y[k], z[k]) per element of x in
\* flattened order and gives the dataset one single-point cell per point.
C9_CreateCombinesFlattened ==
    op = "create" =>
        /\ raised = "none"
        /\ points.shape = <<Prod(x.shape), 3>>
        /\ \A r \in 1..Prod(x.shape) :
              /\ points.data[3 * (r - 1) + 1] = x.data[r]
              /\ points.data[3 * (r - 1) + 2] = y.data[r]
              /\ points.data[3 * (r - 1) + 3] = z.data[r]
        /\ dataset.assigned
        /\ dataset.n_points = Prod(x.shape)
        /\ Len(dataset.polys) = Prod(x.shape)
        /\ \A r \in 1..Prod(x.shape) : dataset.polys[r] = <<r - 1>>

\* C9 witness: a 2-D coordinate triple of two elements was combined.
C9_Witness ==
    /\ op = "create" /\ raised = "none"
    /\ Len(x.shape) = 2 /\ Prod(x.shape) = 2
    /\ x.dtype = "int" /\ y.dtype = "float"
    /\ len(points) = 2 /\ dataset.polys = <<(<<0>>), (<<1>>)>>

VectorsMismatch ==
    ~IsNone(vectors) /\ len(vectors) > 0 /\ len(vectors) # len(points)

ScalarsMismatch ==
    ~IsNone(scalars) /\ len(scalars) > 0 /\ len(scalars) # len(points)

\* C10: create() raises and assigns no dataset whenever the non-empty
\* vectors (given or combined from u, v, w) or the non-empty scalars differ
\* in length from the points.
C10_MismatchFails ==
    (op = "create" /\ (VectorsMismatch \/ ScalarsMismatch)) =>
        /\ raised \in {"AssertionError", "ValueError"}
        /\ ~dataset.assigned
        /\ pc = "failed"

\* C10 witness: vectors combined from u, v, w of another length than the
\* points made create() fail on its assertion.
C10_Witness ==
    /\ op = "create" /\ raised = "AssertionError"
    /\ ~IsNone(u) /\ VectorsMismatch /\ ~ScalarsMismatch
    /\ ~dataset.assigned

\* C5 as stated: the scalars and the vectors attached to the dataset have as
\* many tuples as the dataset has points.
C5_AttributeLengths ==
    dataset.assigned =>
        /\ (dataset.scalars.present /\ dataset.scalars.tuples > 0) =>
              dataset.scalars.tuples = dataset.n_points
        /\ (dataset.vectors.present /\ dataset.vectors.tuples > 0) =>
              dataset.vectors.tuples = dataset.n_points

(***************************************************************************)
(* Claims about MLineSource.                                               *)
(***************************************************************************)
\* segment k (counted from 0) links point k to point k + 1
Consecutive(segs) == \A k \in 1..Len(segs) : segs[k] = <<k - 1, k>>

\* C6 as stated: the line connectivity always has (point count - 1)
\* segments, segment k linking point k to point k + 1.
C6_ConnectivityFollowsPoints ==
    dataset.assigned =>
        /\ Len(dataset.lines) = dataset.n_points - 1
        /\ Consecutive(dataset.lines)

\* C7: create() on n >= 1 points (1-D x, y, z or combined points) succeeds
\* and builds exactly n - 1 segments, segment k being (k, k + 1), none
\* naming a point outside 0..n-1.
C7_CreateSegments ==
    op = "create" =>
        /\ ((IsNone(x) \/ Len(x.shape) = 1)
             /\ (IsNone(scalars) \/ len(scalars) = len(x)))
               => dataset.assigned
        /\ dataset.assigned =>
              /\ len(points) >= 1
              /\ dataset.n_points = len(points)
              /\ Len(dataset.lines) = len(points) - 1
              /\ Consecutive(dataset.lines)
              /\ \A k \in 1..Len(dataset.lines) : \A e \in 1..2 :
                    dataset.lines[k][e] \in 0..(len(points) - 1)

\* C7 witness: two points were joined by the one segment (0, 1).
C7_Witness ==
    /\ op = "create" /\ dataset.assigned
    /\ len(points) = 2 /\ dataset.lines = <<(<<0, 1>>)>>

(***************************************************************************)
(* Claims about MArray2DSource.                                            *)
(***************************************************************************)
Masking == ~IsNone(mask) /\ len(mask) > 0

\* a holds NaN where the mask is set and is floating-point
MaskApplied(a) ==
    /\ a.dtype = "float"
    /\ a.shape = mask.shape
    /\ \A k \in 1..Len(mask.data) : mask.data[k] # 0 => a.data[k] = NaN

\* the scalars are at least 2 by 2 and x, y are absent or 2-D, so that the
\* spacing can be read off the coordinates
SpacingReadable ==
    /\ scalars.shape[1] >= 2 /\ scalars.shape[2] >= 2
    /\ Len(x.shape) = 2

\* the mask masks at least one position
SomeMasked == \E k \in 1..Len(mask.data) : mask.data[k] # 0

\* C2 as stated: create() with a non-empty mask succeeds for scalars of any
\* element type, the stored scalars are floating-point, hold NaN at every
\* masked position and keep every other value.
C2_CreateMasksAnyType ==
    (op = "create" /\ Masking /\ SomeMasked /\ SpacingReadable) =>
        /\ raised = "none"
        /\ MaskApplied(scalars)
        /\ \A k \in 1..Len(mask.data) :
              mask.data[k] = 0 => scalars.data[k] = Scale * k

\* C3 as stated: with a non-empty mask an assignment to scalars completes
\* without error and pushes to the container the new scalars, floating-point
\* and with NaN at every masked position.
C3_UpdateMasksAgain ==
    (op = "scalars" /\ Masking) =>
        /\ raised = "none"
        /\ MaskApplied(m_data.scalar_data)
        /\ \A k \in 1..Len(mask.data) :
              mask.data[k] = 0 => m_data.scalar_data.data[k] = scalars.data[k]

(***************************************************************************)
(* Claims about MGridSource.                                               *)
(***************************************************************************)
\* C4 as stated: after a successful create() and any assignments of 2-D
\* arrays of the original shape to x, y and z, the x, y and z the adapter
\* holds share one 2-D shape, and every such assignment succeeds.
C4_CoordinatesKeepShape ==
    dataset.assigned =>
        /\ Len(x.shape) = 2
        /\ x.shape = y.shape /\ y.shape = z.shape
        /\ op \in {"x", "y", "z"} => raised = "none"

\* p(i, j) = i * ny + j
P(i, j, ny) == i * ny + j

Occurs(tri, tris) == \E r \in 1..Len(tris) : tris[r] = tri

\* C8: create() on an nx by ny grid, nx, ny >= 2, builds 2*(nx-1)*(ny-1)
\* triangles: for every cell (i, j) the two triangles
\* (p(i,j), p(i+1,j), p(i+1,j+1)) and (p(i+1,j+1), p(i,j+1), p(i,j)), and no
\* others; every vertex index lies in 0..nx*ny-1.
C8_CreateTriangles ==
    (op = "create" /\ dataset.assigned
     /\ x.shape[1] >= 2 /\ x.shape[2] >= 2) =>
        LET nx == x.shape[1]
            ny == x.shape[2]
        IN  /\ Len(dataset.polys) = 2 * (nx - 1) * (ny - 1)
            /\ \A i \in 0..(nx - 2) : \A j \in 0..(ny - 2) :
                  /\ Occurs(<<P(i, j, ny), P(i + 1, j, ny),
                              P(i + 1, j + 1, ny)>>, dataset.polys)
                  /\ Occurs(<<P(i + 1, j + 1, ny), P(i, j + 1, ny),
                              P(i, j, ny)>>, dataset.polys)
            /\ \A r \in 1..Len(dataset.polys) : \A e \in 1..3 :
                  dataset.polys[r][e] \in 0..(nx * ny - 1)
            /\ dataset.n_points = nx * ny

\* C8 witness: a 2 by 3 grid was cut into its four triangles.
C8_Witness ==
    /\ op = "create" /\ dataset.assigned
    /\ x.shape = <<2, 3>>
    /\ dataset.polys = <<(<<0, 3, 4>>), (<<1, 4, 5>>),
                         (<<4, 1, 0>>), (<<5, 2, 1>>)>>

(***************************************************************************)
(* Claims about the argument processing and the constructor functions.     *)
(***************************************************************************)
\* the call has ended with a ValueError and has bound no array and built
\* no adapter and no dataset
RejectedWithValueError ==
    /\ raised = "ValueError"
    /\ pc = "failed"
    /\ x = None /\ y = None /\ z = None /\ u = None /\ v = None /\ w = None
    /\ scalars = None /\ points = None
    /\ ~dataset.assigned
    /\ ~m_data.attached

\* C11: a call with a wrong number of positional arguments ends with a
\* ValueError and builds nothing: process_regular_vectors (also as
\* vector_scatter calls it) for a count other than 3, 4 or 6,
\* process_regular_scalars (also as scalar_scatter calls it) for a count
\* other than 1, 3 or 4, process_regular_2d_scalars for a count other than
\* 1 or 3, and line_source for a count of 1 or any other count than 3 or 4.
C11_WrongCountRaises ==
    pc # "called" =>
        /\ (fn \in {"process_regular_vectors", "vector_scatter"}
            /\ Len(args) \notin {3, 4, 6}) => RejectedWithValueError
        /\ (fn \in {"process_regular_scalars", "scalar_scatter"}
            /\ Len(args) \notin {1, 3, 4}) => RejectedWithValueError
        /\ (fn = "process_regular_2d_scalars"
            /\ Len(args) \notin {1, 3}) => RejectedWithValueError
        /\ (fn = "line_source"
            /\ Len(args) \notin {3, 4}) => RejectedWithValueError

\* C11 witness: process_regular_vectors was called with five arguments and
\* raised its ValueError.
C11_Witness ==
    /\ op = "process_regular_vectors" /\ Len(args) = 5
    /\ RejectedWithValueError

\* some two arrays of the set differ in shape
ShapesDiffer(as) ==
    \E a \in as, b \in as : ~IsNone(a) /\ ~IsNone(b) /\ a.shape # b.shape

\* a direct call of process_regular_vectors or process_regular_scalars has
\* bound x, y, z and the field arrays (given, or derived from the indices or
\* from a function argument), all of them arrays, not all of one shape
ShapeMismatch ==
    \/ /\ op = "process_regular_vectors"
       /\ ~IsNone(x)
       /\ \A a \in {x, y, z, u, v, w} : ~callable(a)
       /\ ShapesDiffer({x, y, z, u, v, w})
    \/ /\ op = "process_regular_scalars"
       /\ ~IsNone(x)
       /\ \A a \in {x, y, z, scalars} : ~callable(a)
       /\ ShapesDiffer({x, y, z, scalars})

\* C12 as stated: a shape mismatch ends the call with a ValueError, the
\* error of an argument-count mismatch, and no tuple is returned.
C12_MismatchIsValueError ==
    ShapeMismatch => (raised = "ValueError" /\ pc = "failed")

\* C12 amended: a shape mismatch ends the call with the AssertionError of
\* the closing assert ("argument shape are not equal"), not with the
\* ValueError of an argument-count mismatch, and no tuple is returned.
C12_MismatchIsAssertionError ==
    ShapeMismatch => (raised = "AssertionError" /\ pc = "failed")

\* C12 witness: six arrays, the coordinates 3-D and a vector component 2-D,
\* failed the closing assert of process_regular_vectors.
C12_Witness ==
    /\ op = "process_regular_vectors" /\ Len(args) = 6
    /\ Len(x.shape) = 3 /\ x.shape = y.shape /\ y.shape = z.shape
    /\ Len(u.shape) = 2
    /\ raised = "AssertionError" /\ pc = "failed"

\* process_regular_2d_scalars was called with three arguments
ThreeArgument2D == op = "process_regular_2d_scalars" /\ Len(args) = 3

\* C13 as stated: with three arguments x, y, s that are arrays (s possibly
\* the result of calling a function argument) and do not share one shape,
\* process_regular_2d_scalars raises instead of returning (x, y, s).
C13_ShapesValidated ==
    (ThreeArgument2D
     /\ \A a \in {x, y, scalars} : ~callable(a)
     /\ ShapesDiffer({x, y, scalars})) =>
        (raised # "none" /\ pc = "failed")

\* C13 amended: with three arguments process_regular_2d_scalars checks only
\* that s (or what the function argument s returned) is 2-D: a 2-D s is
\* returned together with x and y as they were passed (a list turned into
\* an array), whatever the shapes of x and y; any other s fails the assert
\* "2D array required".
C13_OnlyScalarsDimensionChecked ==
    ThreeArgument2D =>
        /\ x = convert_to_arrays(args)[1]
        /\ y = convert_to_arrays(args)[2]
        /\ Len(scalars.shape) = 2 => (raised = "none" /\ pc = "returned")
        /\ Len(scalars.shape) # 2 =>
              (raised = "AssertionError" /\ pc = "failed")

\* C13 witness: a 3-D x, a 1-D y and a 2-D s were returned as they came.
C13_Witness ==
    /\ ThreeArgument2D
    /\ raised = "none" /\ pc = "returned"
    /\ Len(x.shape) = 3 /\ Len(y.shape) = 1 /\ Len(scalars.shape) = 2

(***************************************************************************)
(* Further claims about MArray2DSource.                                    *)
(***************************************************************************)
\* C14 as stated: create() on 1-D x and y of at least two values each, a
\* 2-D scalar array and no mask succeeds; the container's origin is
\* (min x, min y, 0) and its spacing (x[1]-x[0], y[1]-y[0], 1).
C14_OneDimensionalCoordinates ==
    (op = "create" /\ IsNone(mask)
     /\ Len(x.shape) = 1 /\ Len(y.shape) = 1
     /\ len(x) >= 2 /\ len(y) >= 2
     /\ Len(scalars.shape) = 2) =>
        /\ raised = "none"
        /\ dataset.assigned
        /\ dataset.origin = <<min(x), min(y), 0>>
        /\ dataset.spacing = <<x.data[2] - x.data[1],
                               y.data[2] - y.data[1], Scale>>

(***************************************************************************)
(* Claims about MArraySource.                                              *)
(***************************************************************************)
\* C15 as stated: create() given u, v, w on a grid of any shape (a, b, c)
\* with at least two samples along each axis succeeds and stores combined
\* vectors of shape (a, b, c, 3) whose entry at each grid index is the
\* (u, v, w) of that index.
C15_CombinedVectorsOnAnyGrid ==
    (op = "create" /\ ~IsNone(u)
     /\ \A i \in 1..3 : u.shape[i] >= 2) =>
        /\ raised = "none"
        /\ vectors.shape = u.shape \o <<3>>
        /\ \A r \in 1..size(u) :
              /\ vectors.data[3 * (r - 1) + 1] = u.data[r]
              /\ vectors.data[3 * (r - 1) + 2] = v.data[r]
              /\ vectors.data[3 * (r - 1) + 3] = w.data[r]

\* the elements the spacing is computed from exist in the current x, y, z
Readable3 == Has3(x, 1, 0, 0) /\ Has3(y, 0, 1, 0) /\ Has3(z, 0, 0, 1)

\* C16: once created, and after any assignments to x, y and z, whenever
\* the current x, y, z are 3-D arrays with two samples along their own
\* axis, the container's origin is (min x, min y, min z) and its spacing
\* (x[1,0,0]-x[0,0,0], y[0,1,0]-y[0,0,0], z[0,0,1]-z[0,0,0]) of the
\* current arrays, and the assignment of any one of them completed.
C16_OriginSpacingFollowCoordinates ==
    (dataset.assigned /\ Readable3) =>
        /\ raised = "none"
        /\ dataset.origin = <<min(x), min(y), min(z)>>
        /\ dataset.spacing = <<At3(x, 1, 0, 0) - At3(x, 0, 0, 0),
                               At3(y, 0, 1, 0) - At3(y, 0, 0, 0),
                               At3(z, 0, 0, 1) - At3(z, 0, 0, 0)>>

\* C16 witness: x was moved to start at 1 and then y to start at 2, both
\* with a step of a half; z is still the index grid of create().
C16_Witness ==
    /\ op = "y" /\ raised = "none" /\ nupd = 2
    /\ dataset.origin = <<Scale, 2 * Scale, 0>>
    /\ dataset.spacing = <<1, 1, Scale>>
    /\ dataset.modified = 2

\* C17 as stated, for MArray2DSource: every attribute assignment made
\* through the attached source marks the dataset modified once and sets the
\* pipeline source's data-changed flag once.
C17_EveryAssignmentNotifies ==
    [][ nupd' = nupd + 1 =>
            /\ dataset'.modified = dataset.modified + 1
            /\ m_data'.data_changed = m_data.data_changed + 1 ]_vars

(***************************************************************************)
(* Further claims about MLineSource and MGlyphSource.                      *)
(***************************************************************************)
\* C18 as stated: MLineSource.create() on x, y, z of one shape of any
\* dimensionality, without combined points and without scalars, succeeds
\* and stores one row (x[k], y[k], z[k]) per element of x in flattened
\* order, as MGlyphSource.create() does.
C18_LineCombinesAnyShape ==
    (op = "create" /\ fn = "MLineSource" /\ ~IsNone(x) /\ IsNone(scalars)) =>
        /\ raised = "none"
        /\ points.shape = <<Prod(x.shape), 3>>
        /\ \A r \in 1..Prod(x.shape) :
              /\ points.data[3 * (r - 1) + 1] = x.data[r]
              /\ points.data[3 * (r - 1) + 2] = y.data[r]
              /\ points.data[3 * (r - 1) + 3] = z.data[r]

\* C19 as stated: for MGlyphSource created from x, y, z, after any
\* assignments to x, y, z and points that completed and kept the number of
\* points, columns 0, 1 and 2 of the current points (floating-point, so
\* that they store any value unchanged) are the flattened current x, y
\* and z.
C19_ComponentsAgreeWithPoints ==
    (dataset.assigned /\ raised = "none" /\ points.dtype = "float"
     /\ size(x) = len(points) /\ size(y) = len(points)
     /\ size(z) = len(points)) =>
        /\ Column(points, 0) = x.data
        /\ Column(points, 1) = y.data
        /\ Column(points, 2) = z.data

(***************************************************************************)
(* Claims about the constructor functions.                                 *)
(***************************************************************************)
\* C20: in vector_scatter, scalar_scatter, line_source and grid_source no
\* change hook has run when the function ends (the initial attributes are
\* set without notification); the dataset exists only once create() has
\* run; m_data is assigned only in the last step, after create() and after
\* the dataset was added to the pipeline; and when the function has
\* returned, the adapter's m_data is the returned handle and the handle's
\* mlab_source is the adapter.
C20_ConstructorOrder ==
    fn \in Constructors =>
        /\ nupd = 0
        /\ dataset.modified = 0
        /\ dataset.assigned <=> pc \in {"created", "attached"}
        /\ m_data.attached <=> pc = "attached"
        /\ m_data.mlab_source <=> pc = "attached"
        /\ pc = "attached" => raised = "none"

\* C20 witness: line_source on three lists of two numbers has returned the
\* handle of a line of two points.
C20_Witness ==
    /\ fn = "line_source" /\ pc = "attached"
    /\ Len(args) = 3
    /\ m_data.attached /\ m_data.mlab_source
    /\ dataset.assigned /\ dataset.lines = <<(<<0, 1>>)>>
    /\ nupd = 0

====
